---------------------------- MODULE Spec2Model ----------------------------
(***************************************************************************)
(* Drive icon setter (Windows-ChangeDisk): the icon application pipeline   *)
(* of Windows/Python/DriveIconSetter.py and the registry, classifier and   *)
(* eject helpers it shares with the other copies of the script.            *)
(*                                                                         *)
(* Paths and file names are TLA+ strings, handled character by character   *)
(* as the Python code does (lower(), basename(), "in", startswith(), ...). *)
(***************************************************************************)
EXTENDS Integers, Sequences, FiniteSets, TLC

VARIABLES
    cls,      \* classifier harness: the path handed to is_safe_to_hide and its answer
    reg,      \* the DriveIcons registry keys of the two hives
    rcall,    \* registry harness: the last call of a registry helper and its outcome
    ej,       \* eject harness: the copy of safe_eject called, what the OS answers, the outcome
    vol,      \* the entries of the drive E:
    pdata,    \* contents of %ProgramData%\DriveIcons\drive_E.ico, None when absent
    touched,  \* the mutations of volume entries made by the run in progress
    env,      \* the process: elevated or not, the volume writable or not, %SystemDrive%
    shell,    \* Explorer: running or not
    run,      \* the pipeline run in progress: operation, position, arguments, messages
    hist,     \* the runs so far: their number, the state before the current one, the ends
    threads   \* window harness: the worker threads the window has started and not seen end

vars == <<cls, reg, rcall, ej, vol, pdata, touched, env, shell, run, hist, threads>>
pipeVars == <<vol, pdata, touched, env, shell, run, hist, threads>>

(***************************************************************************)
(* Bounds of the model.                                                    *)
(***************************************************************************)
MaxDepth == 1       \* ancestor directories between the drive root and a classified name
MaxRuns == 2        \* Apply / Remove runs started from the window in one behaviour

(***************************************************************************)
(* Python string helpers.                                                  *)
(***************************************************************************)
UPPERCASE == "ABCDEFGHIJKLMNOPQRSTUVWXYZ"
LOWERCASE == "abcdefghijklmnopqrstuvwxyz"
SEP == "\\"

CharAt(s, i) == SubSeq(s, i, i)

\* str.lower() of one character
ToLower == [c \in {CharAt(UPPERCASE, i) : i \in 1..Len(UPPERCASE)} |->
               CharAt(LOWERCASE, CHOOSE i \in 1..Len(UPPERCASE) : CharAt(UPPERCASE, i) = c)]
LowerChar(c) == IF c \in DOMAIN ToLower THEN ToLower[c] ELSE c

RECURSIVE Lower(_)
\* str.lower()
Lower(s) == IF Len(s) = 0 THEN "" ELSE LowerChar(CharAt(s, 1)) \o Lower(SubSeq(s, 2, Len(s)))

\* needle in hay
Contains(hay, needle) ==
    \E i \in 1..(Len(hay) - Len(needle) + 1) : SubSeq(hay, i, i + Len(needle) - 1) = needle

\* s.startswith(p)
StartsWith(s, p) == Len(p) <= Len(s) /\ SubSeq(s, 1, Len(p)) = p

\* s.endswith(p)
EndsWith(s, p) == Len(p) <= Len(s) /\ SubSeq(s, Len(s) - Len(p) + 1, Len(s)) = p

\* str.upper() of one character
ToUpper == [c \in {CharAt(LOWERCASE, i) : i \in 1..Len(LOWERCASE)} |->
               CharAt(UPPERCASE, CHOOSE i \in 1..Len(LOWERCASE) : CharAt(LOWERCASE, i) = c)]
UpperChar(c) == IF c \in DOMAIN ToUpper THEN ToUpper[c] ELSE c

RECURSIVE Upper(_)
\* str.upper()
Upper(s) == IF Len(s) = 0 THEN "" ELSE UpperChar(CharAt(s, 1)) \o Upper(SubSeq(s, 2, Len(s)))

RECURSIVE RStrip(_, _)
\* s.rstrip(c) for a single character c
RStrip(s, c) == IF Len(s) > 0 /\ CharAt(s, Len(s)) = c THEN RStrip(SubSeq(s, 1, Len(s) - 1), c) ELSE s

RECURSIVE LStrip(_, _)
\* s.lstrip(c) for a single character c
LStrip(s, c) == IF Len(s) > 0 /\ CharAt(s, 1) = c THEN LStrip(SubSeq(s, 2, Len(s)), c) ELSE s

\* s.strip(), the labels of the model holding no other white space than blanks
Strip(s) == LStrip(RStrip(s, " "), " ")

RECURSIVE LStripDot(_)
\* s.lstrip('.')
LStripDot(s) == IF Len(s) > 0 /\ CharAt(s, 1) = "." THEN LStripDot(SubSeq(s, 2, Len(s))) ELSE s

\* positions of s that end a directory part (ntpath: "\", "/" and the drive colon)
SepPositions(s) ==
    {i \in 1..Len(s) : CharAt(s, i) = SEP \/ CharAt(s, i) = "/" \/ (i = 2 /\ CharAt(s, i) = ":")}

Max(S) == CHOOSE m \in S : \A x \in S : x <= m

\* os.path.basename(path)
basename(path) ==
    LET seps == SepPositions(path)
    IN  IF seps = {} THEN path ELSE SubSeq(path, Max(seps) + 1, Len(path))

\* os.path.dirname(path): the head of ntpath.split, trailing separators dropped
\* unless the head is the drive root
dirname(path) ==
    LET seps == SepPositions(path)
        cut  == Max(seps)
    IN  IF seps = {} THEN ""
        ELSE IF cut <= 3 THEN SubSeq(path, 1, cut) ELSE SubSeq(path, 1, cut - 1)

\* os.path.join(a, b) for a relative b
join(a, b) == IF a = "" \/ EndsWith(a, SEP) \/ EndsWith(a, "/") \/ EndsWith(a, ":")
              THEN a \o b ELSE a \o SEP \o b

(***************************************************************************)
(* VolumeClassifier: is_safe_to_hide.                                      *)
(***************************************************************************)
SYSTEM_FILES == <<
    "$RECYCLE.BIN", "System Volume Information", "boot.ini", "pagefile.sys",
    "hiberfil.sys", "swapfile.sys", "bootmgr", "BOOTNXT", "RECOVERY", "Windows",
    "WinNT", "Program Files", "Program Files (x86)", "ProgramData" >>

ICON_FILES == <<
    "desktop.ini", "autorun.inf", ".directory", ".VolumeIcon.icns", "VolumeIcon.icns",
    ".DS_Store", ".fseventsd", ".metadata_never_index", ".icons" >>

\* sys_file.lower(), icon_file.lower() and '.' + icon_file.lower().lstrip('.')
SystemLower == [i \in 1..Len(SYSTEM_FILES) |-> Lower(SYSTEM_FILES[i])]
IconLower == [i \in 1..Len(ICON_FILES) |-> Lower(ICON_FILES[i])]
IconDotted == [i \in 1..Len(ICON_FILES) |-> "." \o LStripDot(Lower(ICON_FILES[i]))]

\* the deny loop with the whole-path test dropped: only the file name is looked at
DenyNameOnly(filename, filepath_lower) ==
    \E i \in 1..Len(SYSTEM_FILES) : Contains(filename, SystemLower[i])

\* the deny loop: "sys_file.lower() in filename or sys_file.lower() in filepath_lower"
DenyListed(filename, filepath_lower) ==
    \E i \in 1..Len(SYSTEM_FILES) :
        Contains(filename, SystemLower[i]) \/ Contains(filepath_lower, SystemLower[i])

\* the directory rule: "dirname not in ['.icons', '.fseventsd'] and not dirname.startswith('.')"
KeptDirectory(filepath, isdir) ==
    LET dirname_ == Lower(basename(filepath))
    IN  isdir /\ dirname_ \notin {".icons", ".fseventsd"} /\ ~StartsWith(dirname_, ".")

\* the allow loop
AllowListed(filename) ==
    \E i \in 1..Len(ICON_FILES) :
        \/ filename = IconLower[i]
        \/ filename = IconDotted[i]
        \/ Contains(filename, IconLower[i]) /\ EndsWith(filename, ".png")

\* is_safe_to_hide(filepath); isdir is os.path.isdir(filepath)
is_safe_to_hide(filepath, isdir) ==
    LET filename == Lower(basename(filepath))
        filepath_lower == Lower(filepath)
    IN  IF DenyListed(filename, filepath_lower) THEN FALSE
        ELSE IF KeptDirectory(filepath, isdir) THEN FALSE
        ELSE AllowListed(filename)

(***************************************************************************)
(* Classifier harness: is_safe_to_hide applied to paths under the drive    *)
(* root, the name a file or a directory, below up to MaxDepth ancestors.   *)
(***************************************************************************)
DRIVE == "E:\\"

\* directory names a path may pass through
AncestorNames == {"Windows", "$Recycle.Bin", "System Volume Information", ".icons",
                  "Photos", ".fseventsd"}

\* names a classified entry may carry
LeafNames == {"desktop.ini", "autorun.inf", ".directory", ".VolumeIcon.icns",
              "VolumeIcon.icns", ".DS_Store", ".fseventsd", ".metadata_never_index",
              ".icons", ".desktop.ini", ".autorun.inf", "Desktop.INI", "AUTORUN.INF",
              "drive_icon.ico", "drive_icon_256.png", ".drive_icon.png",
              "holiday.icons.png", "photo.jpg", "notes.txt", "Photos", "desktop.ini.bak",
              "pagefile.sys", "BOOTMGR", "Program Files", "desktop.ini.png", "no_log"}

RECURSIVE ComponentLists(_)
\* the ancestor lists of length at most n
ComponentLists(n) ==
    IF n = 0 THEN {<<>>}
    ELSE ComponentLists(n - 1) \cup
         {Append(c, a) : c \in {x \in ComponentLists(n - 1) : Len(x) = n - 1},
                         a \in AncestorNames}

RECURSIVE PathOf(_, _)
\* os.path.join(root, c1, ..., cn)
PathOf(root, comps) ==
    IF comps = <<>> THEN root ELSE PathOf(join(root, Head(comps)), Tail(comps))

ClsInit ==
    \E anc \in ComponentLists(MaxDepth), leaf \in LeafNames, d \in BOOLEAN :
        cls = [comps |-> Append(anc, leaf), isdir |-> d, called |-> FALSE, safe |-> FALSE]

ClsIdle == cls = [comps |-> <<>>, isdir |-> FALSE, called |-> FALSE, safe |-> FALSE]

\* one call of is_safe_to_hide on the harness path
Classify ==
    /\ cls.comps # <<>>
    /\ ~cls.called
    /\ cls' = [cls EXCEPT !.called = TRUE,
                          !.safe = is_safe_to_hide(PathOf(DRIVE, cls.comps), cls.isdir)]
    /\ UNCHANGED <<reg, rcall, ej, pipeVars>>

(***************************************************************************)
(* PersistentIconStore: the registry helpers reg_set_icon, reg_get_icon    *)
(* and reg_remove_icon. Under each hive the key of a drive letter holds    *)
(* the subkeys DefaultIcon and DefaultLabel, each with one default value.  *)
(***************************************************************************)
None == "None"              \* Python's None; an absent key
HKLM == "HKEY_LOCAL_MACHINE"
HKCU == "HKEY_CURRENT_USER"
Hives == <<HKLM, HKCU>>     \* the order of "for hive in [...]"
HiveSet == {HKLM, HKCU}
Letters == {"E"}
Subs == <<"DefaultIcon", "DefaultLabel", "">>   \* the order of reg_remove_icon

\* letter = drive.rstrip("\\").rstrip(":")[0].upper()
Letter(drive) == UpperChar(CharAt(RStrip(RStrip(drive, SEP), ":"), 1))

NoEntry == [key |-> FALSE, icon |-> None, label |-> None]
EmptyRegistry == [h \in HiveSet |-> [l \in Letters |-> NoEntry]]

\* a denied operation: <<hive, "write">> (CreateKeyEx / SetValueEx under the hive) or
\* <<hive, sub, "delete">> (DeleteKey of one key)
WriteDenials == {<<h, "write">> : h \in HiveSet}
DeleteDenials == {<<h, Subs[i], "delete">> : h \in HiveSet, i \in 1..Len(Subs)}

\* the body of the try block for one hive: the keys after it and whether it raised
HiveWrite(r, deny, hive, letter, ico_path, label) ==
    IF <<hive, "write">> \in deny THEN [reg |-> r, failed |-> TRUE]
    ELSE LET r1 == [r EXCEPT ![hive][letter].key = TRUE, ![hive][letter].icon = ico_path]
             r2 == IF Strip(label) # ""
                   THEN [r1 EXCEPT ![hive][letter].label = Strip(label)]
                   ELSE r1
         IN  [reg |-> r2, failed |-> FALSE]

\* reg_set_icon(drive, ico_path, label): the keys after the call and whether it raised
\* PermissionError ("if hive == winreg.HKEY_LOCAL_MACHINE: raise")
reg_set_icon(r, deny, drive, ico_path, label) ==
    LET letter == Letter(drive)
        w1 == HiveWrite(r, deny, Hives[1], letter, ico_path, label)
        w2 == HiveWrite(w1.reg, deny, Hives[2], letter, ico_path, label)
    IN  IF w1.failed /\ Hives[1] = HKLM THEN [reg |-> w1.reg, raised |-> TRUE]
        ELSE IF w2.failed /\ Hives[2] = HKLM THEN [reg |-> w2.reg, raised |-> TRUE]
        ELSE [reg |-> w2.reg, raised |-> FALSE]

\* reg_get_icon reading the current user's hive first
reg_get_icon_hkcu_first(r, drive) ==
    LET letter == Letter(drive)
    IN  IF r[HKCU][letter].icon # None THEN r[HKCU][letter].icon
        ELSE IF r[HKLM][letter].icon # None THEN r[HKLM][letter].icon
        ELSE None

\* reg_get_icon(drive): the first hive whose DefaultIcon key opens
reg_get_icon(r, drive) ==
    LET letter == Letter(drive)
    IN  IF r[Hives[1]][letter].icon # None THEN r[Hives[1]][letter].icon
        ELSE IF r[Hives[2]][letter].icon # None THEN r[Hives[2]][letter].icon
        ELSE None

\* winreg.DeleteKey(hive, path) inside "try: ... except: pass": the key goes when it
\* exists, has no subkey left and the deletion is permitted
DeleteKey(r, deny, hive, letter, sub) ==
    IF <<hive, sub, "delete">> \in deny THEN r
    ELSE IF sub = "DefaultIcon" THEN [r EXCEPT ![hive][letter].icon = None]
    ELSE IF sub = "DefaultLabel" THEN [r EXCEPT ![hive][letter].label = None]
    ELSE IF r[hive][letter].icon = None /\ r[hive][letter].label = None
         THEN [r EXCEPT ![hive][letter].key = FALSE]
    ELSE r

RECURSIVE RemoveFrom(_, _, _, _, _)
\* the two nested loops of reg_remove_icon, from hive h and sub s on
RemoveFrom(r, deny, letter, h, s) ==
    IF h > Len(Hives) THEN r
    ELSE IF s > Len(Subs) THEN RemoveFrom(r, deny, letter, h + 1, 1)
    ELSE RemoveFrom(DeleteKey(r, deny, Hives[h], letter, Subs[s]), deny, letter, h, s + 1)

\* reg_remove_icon(drive)
reg_remove_icon(r, deny, drive) == RemoveFrom(r, deny, Letter(drive), 1, 1)

(***************************************************************************)
(* Registry harness: the three helpers called in any order on any prior    *)
(* content of the hives, each call with any set of denied operations.      *)
(***************************************************************************)
Drives == {"E:\\", "e:"}
IcoPaths == {"C:\\ProgramData\\DriveIcons\\drive_E.ico", "E:\\.icons\\drive_icon.ico"}
Labels == {"", " USB "}
OldIcons == {None, "C:\\old.ico"}
OldLabels == {None, "Old"}

RegEntries ==
    {e \in [key : BOOLEAN, icon : OldIcons, label : OldLabels] :
        (e.icon # None \/ e.label # None) => e.key}

NoCall == [op |-> "none", drive |-> "", path |-> "", label |-> "", deny |-> {},
           raised |-> FALSE, ret |-> None]

RegSet ==
    \E d \in Drives, p \in IcoPaths, l \in Labels, deny \in SUBSET WriteDenials :
        LET out == reg_set_icon(reg, deny, d, p, l)
        IN  /\ reg' = out.reg
            /\ rcall' = [op |-> "set", drive |-> d, path |-> p, label |-> l, deny |-> deny,
                         raised |-> out.raised, ret |-> None]
            /\ UNCHANGED <<cls, ej, pipeVars>>

RegGet ==
    \E d \in Drives :
        /\ rcall' = [NoCall EXCEPT !.op = "get", !.drive = d, !.ret = reg_get_icon(reg, d)]
        /\ UNCHANGED <<cls, reg, ej, pipeVars>>

RegRemove ==
    \E d \in Drives, deny \in SUBSET DeleteDenials :
        /\ reg' = reg_remove_icon(reg, deny, d)
        /\ rcall' = [NoCall EXCEPT !.op = "remove", !.drive = d, !.deny = deny]
        /\ UNCHANGED <<cls, ej, pipeVars>>

(***************************************************************************)
(* The volume: every existing path of the drive mapped to its entry. An    *)
(* entry is a file or a directory, has contents (files) and the Windows    *)
(* hidden+system attributes ("attrib +H +S"). The helpers below work on a  *)
(* record fs = [vol, wr, touched]: the entries, whether the volume accepts *)
(* writes, and the mutations made so far, each <<operation, path, isdir>>. *)
(*                                                                         *)
(* Windows refuses to open an existing hidden or system file for writing   *)
(* (CREATE_ALWAYS without the attributes: access denied), which is the     *)
(* PermissionError force_write_file's second method answers by clearing    *)
(* the attributes; opening a directory for writing is refused as well.     *)
(***************************************************************************)
File(data, hidden) == [dir |-> FALSE, data |-> data, hidden |-> hidden]
Directory(hidden) == [dir |-> TRUE, data |-> "", hidden |-> hidden]

\* os.path.exists(path)
Exists(v, path) == path \in DOMAIN v

\* os.path.isdir(path)
IsDir(v, path) == path \in DOMAIN v /\ v[path].dir

Put(v, path, e) == (path :> e) @@ v
Drop(v, path) == [q \in DOMAIN v \ {path} |-> v[q]]

Touch(fs, op, path) == fs.touched \cup {<<op, path, IsDir(fs.vol, path)>>}

\* whether open(path, "w") / shutil.copy2(src, path) / Image.save(path) succeeds
CanCreate(fs, path) ==
    fs.wr /\ ~(Exists(fs.vol, path) /\ (fs.vol[path].dir \/ fs.vol[path].hidden))

\* whether writing data into a file just opened fails with OSError (ENOSPC): the volume
\* is full; directory entries and empty files still fit
NoSpace(fs, data) == fs.full /\ data # ""

\* the file written by a successful open-and-write
FsWrite(fs, path, data) ==
    [fs EXCEPT !.vol = Put(fs.vol, path, File(data, FALSE)),
               !.touched = Touch(fs, IF Exists(fs.vol, path) THEN "overwrite" ELSE "create",
                                 path)]

\* whether os.remove(path) succeeds
CanRemove(fs, path) == fs.wr /\ Exists(fs.vol, path) /\ ~fs.vol[path].dir

\* a successful os.remove(path)
FsRemove(fs, path) ==
    [fs EXCEPT !.vol = Drop(fs.vol, path), !.touched = Touch(fs, "delete", path)]

\* whether os.rename(src, dst) succeeds (Windows: not onto an existing name)
CanRename(fs, src, dst) == fs.wr /\ Exists(fs.vol, src) /\ ~Exists(fs.vol, dst)

\* a successful os.rename(src, dst) of a file
FsRename(fs, src, dst) ==
    [fs EXCEPT !.vol = Put(Drop(fs.vol, src), dst, fs.vol[src]),
               !.touched = Touch(fs, "rename", src)]

\* subprocess.run(["attrib", "+H", "+S", path])
FsHide(fs, path) ==
    IF fs.wr /\ Exists(fs.vol, path)
    THEN [fs EXCEPT !.vol = [fs.vol EXCEPT ![path].hidden = TRUE],
                    !.touched = Touch(fs, "hide", path)]
    ELSE fs

\* clear_attribs(path): subprocess.run(["attrib", "-R", "-H", "-S", path])
clear_attribs(fs, path) ==
    IF fs.wr /\ Exists(fs.vol, path)
    THEN [fs EXCEPT !.vol = [fs.vol EXCEPT ![path].hidden = FALSE]]
    ELSE fs

\* os.makedirs(path, exist_ok=True) of a directory below the root: the volume after it,
\* and the exception it raised ("" when none)
makedirs(fs, path) ==
    IF IsDir(fs.vol, path) THEN [fs |-> fs, raised |-> ""]
    ELSE IF Exists(fs.vol, path) THEN [fs |-> fs, raised |-> "FileExistsError"]
    ELSE IF ~fs.wr THEN [fs |-> fs, raised |-> "PermissionError"]
    ELSE [fs |-> [fs EXCEPT !.vol = Put(fs.vol, path, Directory(FALSE)),
                            !.touched = Touch(fs, "create", path)],
          raised |-> ""]

\* the names os.listdir(drive) returns, as paths
RootPaths(v, drive) == {q \in DOMAIN v : dirname(q) = drive}

\* the files and directories os.walk(top) visits below top
Descendants(v, top) == {q \in DOMAIN v : StartsWith(q, top \o SEP)}

(***************************************************************************)
(* force_write_file: a direct write, then a write after clearing the       *)
(* attributes, then a write through <filepath>.tmp. kind is "copy"         *)
(* (source_file=), "text" (content= a str) or "bytes" (content= bytes);    *)
(* data is what ends up in the file.                                       *)
(***************************************************************************)
\* third method, "Try with temp file", for a str content or a source file
ViaTempFile(fs, filepath, data) ==
    IF ~CanCreate(fs, filepath \o ".tmp") THEN [fs |-> fs, ok |-> FALSE]
    ELSE IF NoSpace(fs, data) THEN [fs |-> FsWrite(fs, filepath \o ".tmp", ""), ok |-> FALSE]
    ELSE IF ~Exists(fs.vol, filepath)
         THEN [fs |-> FsRename(FsWrite(fs, filepath \o ".tmp", data),
                               filepath \o ".tmp", filepath),
               ok |-> TRUE]
    ELSE IF CanRemove(fs, filepath)
         THEN [fs |-> FsRename(FsRemove(FsWrite(fs, filepath \o ".tmp", data), filepath),
                               filepath \o ".tmp", filepath),
               ok |-> TRUE]
    ELSE [fs |-> FsWrite(fs, filepath \o ".tmp", data), ok |-> FALSE]

\* open(path, "w", encoding="utf-8") followed by f.write(content) for a bytes content:
\* the file is created or truncated, then write() raises TypeError
OpenTextWriteBytes(fs, path) == IF CanCreate(fs, path) THEN FsWrite(fs, path, "") ELSE fs

\* second and third method, entered after PermissionError; fs has the attributes of an
\* existing filepath cleared
AfterPermissionError(fs, filepath, kind, data) ==
    IF kind = "bytes"
    THEN [fs |-> OpenTextWriteBytes(OpenTextWriteBytes(fs, filepath), filepath \o ".tmp"),
          ok |-> FALSE]
    ELSE IF CanCreate(fs, filepath)
         THEN IF NoSpace(fs, data)
              THEN ViaTempFile(FsWrite(fs, filepath, ""), filepath, data)
              ELSE [fs |-> FsWrite(fs, filepath, data), ok |-> TRUE]
    ELSE ViaTempFile(fs, filepath, data)

\* force_write_file(filepath, source_file, content): the volume after the call, what it
\* returns, and whether it raised instead of returning. The first method catches
\* PermissionError only: an OSError of the direct write leaves the function
force_write_file(fs, filepath, kind, data) ==
    IF CanCreate(fs, filepath)
    THEN IF NoSpace(fs, data)
         THEN [fs |-> FsWrite(fs, filepath, ""), ok |-> FALSE, raised |-> TRUE]
         ELSE [fs |-> FsWrite(fs, filepath, data), ok |-> TRUE, raised |-> FALSE]
    ELSE LET out == AfterPermissionError(clear_attribs(fs, filepath), filepath, kind, data)
         IN  [fs |-> out.fs, ok |-> out.ok, raised |-> FALSE]

RECURSIVE WriteEach(_, _, _)
\* force_write_file for writes[i], writes[i+1], ... in turn, each <<filepath, kind, data>>,
\* up to the first call that raises
WriteEach(fs, writes, i) ==
    IF i > Len(writes) THEN [fs |-> fs, raised |-> FALSE]
    ELSE LET out == force_write_file(fs, writes[i][1], writes[i][2], writes[i][3])
         IN  IF out.raised THEN [fs |-> out.fs, raised |-> TRUE]
             ELSE WriteEach(out.fs, writes, i + 1)

(***************************************************************************)
(* safe_hide_file and safe_hide_all_icon_files.                            *)
(***************************************************************************)
already_hidden == {".directory", ".VolumeIcon.icns", ".DS_Store", ".fseventsd",
                   ".metadata_never_index", ".icons"}
should_rename == {"desktop.ini", "autorun.inf", "VolumeIcon.icns"}

\* "os.rename(filepath, new_path)" and the attrib that follows it, inside try
RenameAndHide(fs, filepath, new_path) ==
    IF CanRename(fs, filepath, new_path)
    THEN FsHide(FsRename(fs, filepath, new_path), new_path)
    ELSE fs

\* the part of safe_hide_file after the first attrib; fs has filepath hidden
HideOnOtherPlatforms(fs, filepath) ==
    LET filename == basename(filepath)
        new_path == join(dirname(filepath), "." \o filename)
    IN  IF filename \in already_hidden \/ StartsWith(filename, ".") THEN fs
        ELSE IF filename \in should_rename
             THEN IF Exists(fs.vol, new_path) /\ CanRemove(fs, filepath)
                  THEN FsRemove(fs, filepath)
                  ELSE RenameAndHide(fs, filepath, new_path)
        ELSE IF EndsWith(filename, ".png") /\ Contains(filepath, ".icons")
             THEN RenameAndHide(fs, filepath, new_path)
        ELSE fs

\* safe_hide_file(filepath): the volume after the call (the count it returns is only
\* logged)
safe_hide_file(fs, filepath) ==
    IF ~Exists(fs.vol, filepath) THEN fs
    ELSE IF ~is_safe_to_hide(filepath, IsDir(fs.vol, filepath)) THEN fs
    ELSE HideOnOtherPlatforms(FsHide(fs, filepath), filepath)

RECURSIVE HideEach(_, _)
\* safe_hide_file over the listed paths; a call touches only its own path and the
\* dot-prefixed name beside it, so the order of the listing does not matter
HideEach(fs, paths) ==
    IF paths = {} THEN fs
    ELSE LET q == CHOOSE x \in paths : TRUE
         IN  HideEach(safe_hide_file(fs, q), paths \ {q})

\* the second loop of safe_hide_all_icon_files, over os.walk(icons_dir)
HideIconsDir(fs, drive) == HideEach(fs, Descendants(fs.vol, join(drive, ".icons")))

\* safe_hide_all_icon_files(drive)
safe_hide_all_icon_files(fs, drive) ==
    HideIconsDir(
        HideEach(fs, {q \in RootPaths(fs.vol, drive) :
                        \A i \in 1..Len(SYSTEM_FILES) : basename(q) # SYSTEM_FILES[i]}),
        drive)

(***************************************************************************)
(* EjectController: the copies of safe_eject. What the OS answers: whether *)
(* CreateFileW opens the volume, whether FSCTL_LOCK_VOLUME and             *)
(* IOCTL_STORAGE_EJECT_MEDIA succeed, and how the PowerShell command ends  *)
(* ("ok", "fail": a non-zero return code with a message on stderr,         *)
(* "silent": a non-zero return code with nothing on stderr, "timeout":     *)
(* subprocess.run raises TimeoutExpired after timeout=15).                 *)
(***************************************************************************)
COPY_CROSS == "Windows/Python/DriveIconSetter.py"
COPY_WINDOWS == "Windows/Python/Windows.py"
COPY_ROOT == "drive_icon_setter.py"
COPY_TEST == "Test/Windows10&11.py"
EjectCopies == {COPY_CROSS, COPY_WINDOWS, COPY_ROOT, COPY_TEST}

EjectAnswers == [handle : BOOLEAN, lock : BOOLEAN, ioctl : BOOLEAN,
                 ps : {"ok", "fail", "silent", "timeout"}]

NativeCalls == <<"CreateFileW", "FSCTL_LOCK", "FSCTL_DISMOUNT", "IOCTL_REMOVAL", "IOCTL_EJECT">>

\* subprocess.run(["powershell", ...], timeout=15) and the return built from it
PowerShellEject(calls, e, okText, failText) ==
    IF e.ps = "timeout"
    THEN [ok |-> FALSE, detail |-> "", calls |-> Append(calls, "powershell"), raised |-> TRUE]
    ELSE [ok |-> e.ps = "ok", detail |-> IF e.ps = "ok" THEN okText ELSE failText,
          calls |-> Append(calls, "powershell"), raised |-> FALSE]

\* r.stderr.decode(errors="ignore")
Stderr(e) == IF e.ps = "silent" THEN "" ELSE "InvokeVerb: error text"

\* the branch "if h == IHV", the same in every copy
EjectWithoutHandle(e) ==
    PowerShellEject(<<"CreateFileW">>, e, "Ejected via PowerShell", Stderr(e))

\* safe_eject of Windows/Python/DriveIconSetter.py and Windows/Python/Windows.py
safe_eject_with_fallback(e) ==
    IF ~e.handle THEN EjectWithoutHandle(e)
    ELSE IF e.ioctl
         THEN [ok |-> TRUE, detail |-> "Ejected!", calls |-> NativeCalls, raised |-> FALSE]
    ELSE PowerShellEject(NativeCalls, e, "Ejected! (via PowerShell)",
                         "Eject failed (code) - please unplug manually.")

\* safe_eject of drive_icon_setter.py and Test/Windows10&11.py
safe_eject_native_only(e) ==
    IF ~e.handle THEN EjectWithoutHandle(e)
    ELSE [ok |-> e.ioctl, detail |-> IF e.ioctl THEN "Ejected!" ELSE "Eject failed (code)",
          calls |-> NativeCalls, raised |-> FALSE]

\* safe_eject(drive) of the given copy
safe_eject(copy, e) ==
    IF copy \in {COPY_CROSS, COPY_WINDOWS} THEN safe_eject_with_fallback(e)
    ELSE safe_eject_native_only(e)

NoEject == [ok |-> FALSE, detail |-> "", calls |-> <<>>, raised |-> FALSE]

\* eject harness: one call of one copy
EjInit ==
    \E c \in EjectCopies, e \in EjectAnswers :
        ej = [copy |-> c, e |-> e, called |-> FALSE, out |-> NoEject]

EjIdle == ej = [copy |-> COPY_CROSS, e |-> [handle |-> TRUE, lock |-> TRUE, ioctl |-> TRUE,
                                            ps |-> "ok"],
                called |-> FALSE, out |-> NoEject]

EjectCall ==
    /\ ~ej.called
    /\ ej' = [ej EXCEPT !.called = TRUE, !.out = safe_eject(ej.copy, ej.e)]
    /\ UNCHANGED <<cls, reg, rcall, pipeVars>>

(***************************************************************************)
(* The steps of universal_icon_pipeline (Apply) and of App._remove_icon    *)
(* (Remove) on the drive E:.                                               *)
(***************************************************************************)
ICO_FOLDER == ".icons"
ICO_STORE == "C:\\ProgramData\\DriveIcons"
CRLF == "\r\n"
LF == "\n"

ico_dest(drive) == join(ICO_STORE, "drive_" \o Letter(drive) \o ".ico")
icons_dir(drive) == join(drive, ICO_FOLDER)

\* is_system_drive(drive)
is_system_drive(drive, systemDrive) == Upper(RStrip(drive, SEP)) = Upper(systemDrive)

\* the bytes of the .ico made from image img, and of its PNG renderings
IcoData(img) == "ICO:" \o img
PngData(img, size) == "PNG" \o size \o ":" \o img

desktop_ini_content ==
    "[.ShellClassInfo]" \o CRLF \o
    "IconResource=" \o ICO_FOLDER \o SEP \o "drive_icon.ico,0" \o CRLF \o
    "IconFile=" \o ICO_FOLDER \o SEP \o "drive_icon.ico" \o CRLF \o
    "IconIndex=0" \o CRLF

autorun_content(label) ==
    "[autorun]" \o CRLF \o "icon=" \o ICO_FOLDER \o SEP \o "drive_icon.ico" \o CRLF \o
    (IF Strip(label) # "" THEN "label=" \o Strip(label) \o CRLF ELSE "")

directory_content ==
    "[Desktop Entry]" \o LF \o "Icon=" \o ICO_FOLDER \o "/.drive_icon.png" \o LF \o
    "Name=Removable Drive" \o LF \o "Type=Directory" \o LF

\* what the registry refuses a process that is not elevated
RegDeny(admin) ==
    IF admin THEN {}
    ELSE {<<HKLM, "write">>} \cup {<<HKLM, Subs[i], "delete">> : i \in 1..Len(Subs)}

\* fnmatch of a root name against "<prefix>*<suffix>" (glob on Windows ignores case)
GlobMatch(name, prefix, suffix) ==
    LET lowered == Lower(name)
    IN  /\ Len(name) >= Len(prefix) + Len(suffix)
        /\ StartsWith(lowered, Lower(prefix))
        /\ EndsWith(lowered, Lower(suffix))

\* glob.glob(os.path.join(drive, "drive_icon*.ico")) and glob(... ".VolumeIcon*")
OldIconPaths(v, drive) ==
    {q \in RootPaths(v, drive) :
        \/ GlobMatch(basename(q), "drive_icon", ".ico")
        \/ GlobMatch(basename(q), ".VolumeIcon", "")}

\* "clear_attribs(old); os.remove(old)" inside try / except: pass
ClearAndRemove(fs, path) ==
    IF Exists(fs.vol, path) /\ ~fs.vol[path].dir /\ fs.wr
    THEN FsRemove(clear_attribs(fs, path), path)
    ELSE clear_attribs(fs, path)

\* "clear_attribs(old); os.remove(old)" when another process holds the file open:
\* os.remove raises PermissionError (sharing violation), which "except: pass" drops
ClearAndFailToRemove(fs, path) ==
    [clear_attribs(fs, path) EXCEPT !.touched = Touch(fs, "denied", path)]

\* the loop body with the is_safe_to_hide test dropped: every glob match is removed
PurgeOneUnchecked(fs, q, held) ==
    IF q \in held THEN ClearAndFailToRemove(fs, q) ELSE ClearAndRemove(fs, q)

\* step 3, the body of the loop over the glob matches: "if is_safe_to_hide(old):
\* try: clear_attribs(old); os.remove(old) except: pass"; held are the files another
\* process holds open
PurgeOne(fs, q, held) ==
    IF ~is_safe_to_hide(q, IsDir(fs.vol, q)) THEN fs
    ELSE IF q \in held THEN ClearAndFailToRemove(fs, q)
    ELSE ClearAndRemove(fs, q)

RECURSIVE PurgeEach(_, _, _)
\* step 3: the loop over the glob matches
PurgeEach(fs, paths, held) ==
    IF paths = {} THEN fs
    ELSE LET q == CHOOSE x \in paths : TRUE
         IN  PurgeEach(PurgeOne(fs, q, held), paths \ {q}, held)

\* check_drive_writable(drive): the volume after the call and what it returns
check_drive_writable(fs, drive) ==
    IF CanCreate(fs, join(drive, ".write_test.tmp")) /\ NoSpace(fs, "test")
    THEN [fs |-> FsWrite(fs, join(drive, ".write_test.tmp"), ""), ok |-> FALSE]
    ELSE IF CanCreate(fs, join(drive, ".write_test.tmp"))
    THEN [fs |-> FsRemove(FsWrite(fs, join(drive, ".write_test.tmp"), "test"),
                          join(drive, ".write_test.tmp")),
          ok |-> TRUE]
    ELSE [fs |-> fs, ok |-> FALSE]

\* create_windows_icons, the copy into .icons: the volume after it and whether
\* force_write_file raised
CopyToIconsFolder(fs, drive, img) ==
    WriteEach(fs, <<<<join(icons_dir(drive), "drive_icon.ico"), "copy", IcoData(img)>>>>, 1)

\* create_windows_icons, desktop.ini and autorun.inf
create_windows_icons(fs, drive, img, label) ==
    WriteEach(fs, <<<<join(drive, "desktop.ini"), "text", desktop_ini_content>>,
                    <<join(drive, "autorun.inf"), "text", autorun_content(label)>>>>, 1)

\* a write inside try / except, as "pil_img.resize(...).save(path, 'PNG')": the file
\* when it can be created, nothing otherwise
TryWrite(fs, path, data) ==
    IF CanCreate(fs, path) /\ ~NoSpace(fs, data) THEN FsWrite(fs, path, data) ELSE fs

png_sizes == <<"256", "128", "64", "32", "16">>

RECURSIVE SavePngSizes(_, _, _, _)
SavePngSizes(fs, drive, img, i) ==
    IF i > Len(png_sizes) THEN fs
    ELSE SavePngSizes(TryWrite(fs, join(icons_dir(drive), "drive_icon_" \o png_sizes[i] \o ".png"),
                              PngData(img, png_sizes[i])),
                      drive, img, i + 1)

\* create_linux_icons
create_linux_icons(fs, drive, img) ==
    WriteEach(
        TryWrite(SavePngSizes(fs, drive, img, 1), join(icons_dir(drive), "drive_icon.png"),
                PngData(img, "256")),
        <<<<join(drive, ".directory"), "text", directory_content>>>>, 1)

\* the end of create_macos_icons: os.makedirs(.fseventsd) and the empty no_log in it
MakeFseventsd(fs, drive) ==
    LET made == makedirs(fs, join(drive, ".fseventsd"))
    IN  IF made.raised # "" THEN fs
        ELSE TryWrite(made.fs, join(join(drive, ".fseventsd"), "no_log"), "")

\* create_macos_icons after the 512px PNG has been saved
MacFiles(fs, drive, img) ==
    LET out == WriteEach(fs, <<<<join(drive, ".VolumeIcon.icns"), "copy", PngData(img, "512")>>,
                               <<join(drive, "VolumeIcon.icns"), "copy", PngData(img, "512")>>,
                               <<join(drive, ".DS_Store"), "bytes", "4096 zero bytes">>,
                               <<join(drive, ".metadata_never_index"), "text", "">>>>, 1)
    IN  IF out.raised THEN out
        ELSE [fs |-> MakeFseventsd(out.fs, drive), raised |-> FALSE]

\* create_macos_icons
create_macos_icons(fs, drive, img) ==
    IF ~CanCreate(fs, join(icons_dir(drive), "drive_icon_512.png"))
       \/ NoSpace(fs, PngData(img, "512"))
    THEN [fs |-> fs, raised |-> FALSE]
    ELSE MacFiles(FsWrite(fs, join(icons_dir(drive), "drive_icon_512.png"),
                          PngData(img, "512")),
                  drive, img)

\* the names App._remove_icon goes through
icon_patterns == <<"desktop.ini", "autorun.inf", ".directory", ".VolumeIcon.icns",
                   "VolumeIcon.icns", ".DS_Store", ".fseventsd", ".metadata_never_index",
                   ".icons">>

\* "if os.path.exists(path) and is_safe_to_hide(path): clear_attribs(path); os.remove(path)"
RemoveIfSafe(fs, path) ==
    IF Exists(fs.vol, path) /\ is_safe_to_hide(path, IsDir(fs.vol, path))
    THEN ClearAndRemove(fs, path)
    ELSE fs

RECURSIVE RemovePatterns(_, _, _)
\* the loop of App._remove_icon over icon_patterns: the name, then its dot-prefixed form
RemovePatterns(fs, drive, i) ==
    IF i > Len(icon_patterns) THEN fs
    ELSE RemovePatterns(
            RemoveIfSafe(RemoveIfSafe(fs, join(drive, icon_patterns[i])),
                         join(drive, "." \o LStripDot(icon_patterns[i]))),
            drive, i + 1)

(***************************************************************************)
(* Apply and Remove as the window starts them: one run at a time, each     *)
(* step of universal_icon_pipeline one action. An exception leaves the try *)
(* block at once and the handler calls done_cb(False, ...).                *)
(***************************************************************************)
Images == {"A", "unreadable"}       \* ico_src: a good .ico, or a file Image.open rejects
\* the run of an unreadable image ends in step 7, before label or do_eject is read
\* (hide_files is never read)
ApplyArgs ==
    {a \in [img : Images, label : Labels, hide : BOOLEAN, eject : BOOLEAN] :
        a.img = "unreadable" => (a.label = "" /\ ~a.hide /\ ~a.eject)}
NoArgs == [img |-> "", label |-> "", hide |-> FALSE, eject |-> FALSE]
NoResult == [ok |-> FALSE, kind |-> "none"]

FS == [vol |-> vol, wr |-> env.writable, full |-> env.full, touched |-> touched]

\* what a run leaves behind: names and contents on the volume, the registry keys and
\* the icon kept under ProgramData
Snapshot(v, r, pd) ==
    [files |-> [q \in DOMAIN v |-> [dir |-> v[q].dir, data |-> v[q].data]],
     reg |-> r, pdata |-> pd]

NoFiles == [q \in {} |-> Directory(FALSE)]

UserVolume ==
    [q \in {"E:\\$RECYCLE.BIN", "E:\\System Volume Information", "E:\\Photos",
            "E:\\holiday.icons.png", "E:\\notes.txt", "E:\\drive_icon_backup.ico"} |->
        IF q \in {"E:\\$RECYCLE.BIN", "E:\\System Volume Information"} THEN Directory(TRUE)
        ELSE IF q = "E:\\Photos" THEN Directory(FALSE)
        ELSE File("user data", FALSE)]

MacVolume ==
    [q \in {"E:\\.VolumeIcon.icns", "E:\\.DS_Store", "E:\\.desktop.ini"} |->
        File("from another machine", FALSE)]

InitialVolumes == {NoFiles, UserVolume, MacVolume}

\* GetDriveTypeW(drive)
DRIVE_REMOVABLE == 2
DRIVE_FIXED == 3

\* the processes and drives of the model: an elevated process on a removable drive, a
\* process that is not elevated on a fixed drive whose old icon files another process
\* holds open (busy) while step 3 runs, an elevated process on the system
\* drive (the pipeline reads the drive type into is_usb and never uses it), an elevated
\* process on a removable drive with no free space
Environments ==
    {[admin |-> TRUE, writable |-> TRUE, full |-> FALSE, busy |-> FALSE, systemDrive |-> "C:",
      dtype |-> DRIVE_REMOVABLE],
     [admin |-> FALSE, writable |-> TRUE, full |-> FALSE, busy |-> TRUE, systemDrive |-> "C:",
      dtype |-> DRIVE_FIXED],
     [admin |-> TRUE, writable |-> TRUE, full |-> FALSE, busy |-> FALSE, systemDrive |-> "E:",
      dtype |-> DRIVE_FIXED],
     [admin |-> TRUE, writable |-> TRUE, full |-> TRUE, busy |-> FALSE, systemDrive |-> "C:",
      dtype |-> DRIVE_REMOVABLE]}

\* what an external command does when it is run: it ends (whatever its exit code), the
\* program cannot be started, or it never ends
ToolAnswers == {"returns", "cannot be executed", "never returns"}

\* taskkill and the tasklist polls run through the shell (shell=True: a command that
\* cannot be started is an exit code, not an exception) and without a timeout; the
\* loop gives up after 30 polls with Explorer still running
kill_explorer(sh, a) ==
    [shell |-> [sh EXCEPT !.running = IF a = "returns" THEN FALSE ELSE @],
     returned |-> a # "never returns"]

\* Popen("explorer.exe", shell=True), then at most 40 tasklist polls without a timeout:
\* the loop breaks at the first poll that lists explorer.exe and falls through after the
\* 40th whether or not one did (launched: Explorer came up within the polls)
start_explorer(sh, poll, launched) ==
    [shell |-> [sh EXCEPT !.running = launched], returned |-> poll # "never returns"]

\* registry: how the reg_set_icon of step 8 ended ("" before it is called)
Idle == [op |-> "none", pc |-> "idle", args |-> NoArgs, steps |-> <<>>, registry |-> "",
         result |-> NoResult, eject |-> NoEject, dones |-> 0]

PipeInit ==
    /\ vol \in InitialVolumes
    /\ pdata = None
    /\ touched = {}
    /\ env \in Environments
    /\ shell = [running |-> TRUE]
    /\ run = Idle
    /\ threads = <<>>
    /\ hist = [runs |-> 0, pre |-> Snapshot(vol, EmptyRegistry, None), ends |-> <<>>]

PipeIdle ==
    /\ vol = NoFiles
    /\ pdata = None
    /\ touched = {}
    /\ env = [admin |-> TRUE, writable |-> TRUE, full |-> FALSE, busy |-> FALSE,
              systemDrive |-> "C:",
              dtype |-> DRIVE_REMOVABLE]
    /\ shell = [running |-> TRUE]
    /\ run = Idle
    /\ threads = <<>>
    /\ hist = [runs |-> 0, pre |-> Snapshot(NoFiles, EmptyRegistry, None), ends |-> <<>>]

\* the messages put in front of the earlier ones instead of after them
SteppedInFront(ns, pc) == [run EXCEPT !.steps = ns \o @, !.pc = pc]

\* the run record after step(n, 14, ...) messages and the move to the next position
Stepped(ns, pc) == [run EXCEPT !.steps = @ \o ns, !.pc = pc]

\* done_cb called a second time by the handler
EndedTwice(r, ok, kind) ==
    [r EXCEPT !.pc = "done", !.result = [ok |-> ok, kind |-> kind], !.dones = @ + 2]

\* the run record after done_cb(ok, ...)
Ended(r, ok, kind) ==
    [r EXCEPT !.pc = "done", !.result = [ok |-> ok, kind |-> kind], !.dones = @ + 1]

\* the history after a run has ended leaving v, r, pd
Closed(ok, v, r, pd) ==
    [hist EXCEPT !.ends = Append(@, [op |-> run.op, args |-> run.args, ok |-> ok,
                                     snap |-> Snapshot(v, r, pd)])]

At(op, pc) == run.op = op /\ run.pc = pc

\* App._apply, App._run_pipeline: the worker thread is started. The user presses the
\* button while no run is in progress: the runs of a behaviour follow one another.
StartApply ==
    \E a \in ApplyArgs :
        /\ run.pc \in {"idle", "done"}
        /\ hist.runs < MaxRuns
        /\ run' = [Idle EXCEPT !.op = "apply", !.pc = "s1", !.args = a]
        /\ hist' = [hist EXCEPT !.runs = @ + 1, !.pre = Snapshot(vol, reg, pdata)]
        /\ touched' = {}
        /\ UNCHANGED <<cls, reg, rcall, ej, threads, vol, pdata, env, shell>>

\* 1. Kill Explorer
StopShell ==
    /\ At("apply", "s1")
    /\ \E a \in ToolAnswers :
        LET out == kill_explorer(shell, a)
        IN  /\ shell' = out.shell
            /\ run' = Stepped(<<1>>, IF out.returned THEN "s2" ELSE "hung")
    /\ UNCHANGED <<cls, reg, rcall, ej, threads, vol, pdata, touched, env, hist>>

\* 2. Delete icon cache
ClearCache ==
    /\ At("apply", "s2")
    /\ run' = Stepped(<<2, 2>>, "s3")
    /\ UNCHANGED <<cls, reg, rcall, ej, threads, vol, pdata, touched, env, shell, hist>>

\* 3. Remove old icon files only
PurgeOldAssets ==
    /\ At("apply", "s3")
    /\ LET held == IF env.busy THEN {q \in OldIconPaths(vol, DRIVE) : ~IsDir(vol, q)} ELSE {}
           out == PurgeEach(FS, OldIconPaths(vol, DRIVE), held)
       IN  vol' = out.vol /\ touched' = out.touched
    /\ pdata' = IF pdata # None /\ is_safe_to_hide(ico_dest(DRIVE), FALSE) THEN None ELSE pdata
    /\ run' = Stepped(<<3, 3>>, "s4")
    /\ UNCHANGED <<cls, reg, rcall, ej, threads, env, shell, hist>>

\* 4. ie4uinit pre-clear
PreClear ==
    /\ At("apply", "s4")
    /\ run' = Stepped(<<4>>, "s5")
    /\ UNCHANGED <<cls, reg, rcall, ej, threads, vol, pdata, touched, env, shell, hist>>

\* 5. Check drive permissions
CheckPermissions ==
    /\ At("apply", "s5")
    /\ LET out == check_drive_writable(FS, DRIVE)
       IN  /\ vol' = out.fs.vol /\ touched' = out.fs.touched
           /\ run' = Stepped(IF ~out.ok /\ env.admin THEN <<5, 5, 5, 5>> ELSE <<5, 5>>, "s6")
    /\ UNCHANGED <<cls, reg, rcall, ej, threads, pdata, env, shell, hist>>

\* 6. Create .icons folder
MakeIconsDir ==
    /\ At("apply", "s6")
    /\ LET out == makedirs(clear_attribs(FS, icons_dir(DRIVE)), icons_dir(DRIVE))
           kind == IF out.raised = "PermissionError" THEN "PermissionError" ELSE "Exception"
       IN  /\ vol' = out.fs.vol /\ touched' = out.fs.touched
           /\ IF out.raised = ""
              THEN run' = Stepped(<<6>>, "s7") /\ hist' = hist
              ELSE /\ run' = Ended(Stepped(<<6>>, "s6"), FALSE, kind)
                   /\ hist' = Closed(FALSE, out.fs.vol, reg, pdata)
    /\ UNCHANGED <<cls, reg, rcall, ej, threads, pdata, env, shell>>

\* 7. Load PIL image
LoadImage ==
    /\ At("apply", "s7")
    /\ IF run.args.img = "unreadable"
       THEN /\ run' = Ended(Stepped(<<7>>, "s7"), FALSE, "Exception")
            /\ hist' = Closed(FALSE, vol, reg, pdata)
       ELSE run' = Stepped(<<7>>, "s8") /\ hist' = hist
    /\ UNCHANGED <<cls, reg, rcall, ej, threads, vol, pdata, touched, env, shell>>

\* 8. Create Windows icons: the copy to ProgramData, the files, the registry entry,
\* whose PermissionError create_windows_icons catches and logs
CreateWindowsIcons ==
    /\ At("apply", "s8")
    /\ pdata' = IcoData(run.args.img)
    /\ LET copied == CopyToIconsFolder(FS, DRIVE, run.args.img)
           set == reg_set_icon(reg, RegDeny(env.admin), DRIVE, ico_dest(DRIVE), run.args.label)
           out == create_windows_icons(copied.fs, DRIVE, run.args.img, run.args.label)
       IN  IF copied.raised
           THEN /\ vol' = copied.fs.vol /\ touched' = copied.fs.touched
                /\ reg' = reg
                /\ run' = Ended(Stepped(<<8, 8>>, "s8"), FALSE, "Exception")
                /\ hist' = Closed(FALSE, copied.fs.vol, reg, IcoData(run.args.img))
           ELSE /\ vol' = out.fs.vol /\ touched' = out.fs.touched
                /\ reg' = set.reg
                /\ IF out.raised
                   THEN /\ run' = Ended(Stepped(<<8, 8>>, "s8"), FALSE, "Exception")
                        /\ hist' = Closed(FALSE, out.fs.vol, set.reg, IcoData(run.args.img))
                   ELSE /\ run' = [Stepped(<<8, 8>>, "s9") EXCEPT
                                     !.registry = IF set.raised THEN "PermissionError"
                                                  ELSE "written"]
                        /\ hist' = hist
    /\ UNCHANGED <<cls, rcall, ej, threads, env, shell>>

\* 9. Create Linux icons
CreateLinuxIcons ==
    /\ At("apply", "s9")
    /\ LET out == create_linux_icons(FS, DRIVE, run.args.img)
       IN  /\ vol' = out.fs.vol /\ touched' = out.fs.touched
           /\ IF out.raised
              THEN /\ run' = Ended(Stepped(<<9, 9>>, "s9"), FALSE, "Exception")
                   /\ hist' = Closed(FALSE, out.fs.vol, reg, pdata)
              ELSE run' = Stepped(<<9, 9>>, "s10") /\ hist' = hist
    /\ UNCHANGED <<cls, reg, rcall, ej, threads, pdata, env, shell>>

\* 10. Create macOS icons
CreateMacosIcons ==
    /\ At("apply", "s10")
    /\ LET out == create_macos_icons(FS, DRIVE, run.args.img)
       IN  /\ vol' = out.fs.vol /\ touched' = out.fs.touched
           /\ IF out.raised
              THEN /\ run' = Ended(Stepped(<<10, 10>>, "s10"), FALSE, "Exception")
                   /\ hist' = Closed(FALSE, out.fs.vol, reg, pdata)
              ELSE run' = Stepped(<<10, 10>>, "s11") /\ hist' = hist
    /\ UNCHANGED <<cls, reg, rcall, ej, threads, pdata, env, shell>>

\* 11. SAFELY hide ALL icon files, whatever hide_files is
SafeHideAssets ==
    /\ At("apply", "s11")
    /\ LET out == safe_hide_all_icon_files(FS, DRIVE)
       IN  vol' = out.vol /\ touched' = out.touched
    /\ run' = Stepped(<<11, 11>>, "s12")
    /\ UNCHANGED <<cls, reg, rcall, ej, threads, pdata, env, shell, hist>>

\* 12. ie4uinit post + Start Explorer
RebuildAndStartShell ==
    /\ At("apply", "s12")
    /\ \E show \in ToolAnswers, poll \in ToolAnswers, launched \in BOOLEAN :
        LET started == start_explorer(shell, poll, launched)
        IN  CASE show = "cannot be executed" ->
                    \* FileNotFoundError, caught by "except Exception"
                    /\ run' = Ended(Stepped(<<12>>, "s12"), FALSE, "Exception")
                    /\ hist' = Closed(FALSE, vol, reg, pdata)
                    /\ shell' = shell
              [] show = "never returns" ->
                    /\ run' = Stepped(<<12>>, "hung")
                    /\ UNCHANGED <<shell, hist>>
              [] OTHER ->
                    /\ shell' = started.shell
                    /\ run' = Stepped(<<12>>, IF started.returned THEN "s13" ELSE "hung")
                    /\ hist' = hist
    /\ UNCHANGED <<cls, reg, rcall, ej, threads, vol, pdata, touched, env>>

\* 13. Notify shell x3
NotifyShell ==
    /\ At("apply", "s13")
    /\ run' = Stepped(<<13>>, "s14")
    /\ UNCHANGED <<cls, reg, rcall, ej, threads, vol, pdata, touched, env, shell, hist>>

\* 14. Final verification
Verify ==
    /\ At("apply", "s14")
    /\ run' = Stepped(<<14, 14>>, "eject")
    /\ UNCHANGED <<cls, reg, rcall, ej, threads, vol, pdata, touched, env, shell, hist>>

\* "if do_eject and not is_system_drive(drive)": safe_eject, whose TimeoutExpired
\* reaches the pipeline's "except Exception"
Eject ==
    /\ At("apply", "eject")
    /\ IF run.args.eject /\ ~is_system_drive(DRIVE, env.systemDrive)
       THEN \E e \in EjectAnswers :
               LET out == safe_eject(COPY_CROSS, e)
               IN  IF out.raised
                   THEN /\ run' = Ended([run EXCEPT !.eject = out], FALSE, "Exception")
                        /\ hist' = Closed(FALSE, vol, reg, pdata)
                   ELSE run' = [run EXCEPT !.eject = out, !.pc = "finish"] /\ hist' = hist
       ELSE run' = [run EXCEPT !.pc = "finish"] /\ hist' = hist
    /\ UNCHANGED <<cls, reg, rcall, ej, threads, vol, pdata, touched, env, shell>>

\* done_cb(True, success_msg, is_sys_done)
Finish ==
    /\ At("apply", "finish")
    /\ run' = Ended(run, TRUE, "success")
    /\ hist' = Closed(TRUE, vol, reg, pdata)
    /\ UNCHANGED <<cls, reg, rcall, ej, threads, vol, pdata, touched, env, shell>>

\* App._remove_icon up to the start of its thread: the registry keys, then the files
RemoveIcon ==
    /\ run.pc \in {"idle", "done"}
    /\ hist.runs < MaxRuns
    /\ reg' = reg_remove_icon(reg, RegDeny(env.admin), DRIVE)
    /\ LET out == RemovePatterns([FS EXCEPT !.touched = {}], DRIVE, 1)
       IN  vol' = out.vol /\ touched' = out.touched
    /\ run' = [Idle EXCEPT !.op = "remove", !.pc = "refresh"]
    /\ hist' = [hist EXCEPT !.runs = @ + 1, !.pre = Snapshot(vol, reg, pdata)]
    /\ UNCHANGED <<cls, rcall, ej, threads, pdata, env, shell>>

\* the thread of App._remove_icon: full_refresh_quick(drive)
RemoveRefresh ==
    /\ At("remove", "refresh")
    /\ shell' = [shell EXCEPT !.running = TRUE]
    /\ run' = [run EXCEPT !.pc = "done", !.result = [ok |-> TRUE, kind |-> "removed"]]
    /\ hist' = Closed(TRUE, vol, reg, pdata)
    /\ UNCHANGED <<cls, reg, rcall, ej, threads, vol, pdata, touched, env>>

\* drive_diagnostics: the volume after it. The writability test writes "test" into
\* .write_test.tmp and removes it inside try / except; everything else it does reads.
drive_diagnostics(fs, drive) == check_drive_writable(fs, drive).fs

\* App._diagnostics: drive_diagnostics on the thread of the window, between runs
Diagnose ==
    /\ run.pc \in {"idle", "done"}
    /\ LET out == drive_diagnostics([FS EXCEPT !.touched = {}], DRIVE)
       IN  vol' = out.vol /\ touched' = out.touched
    /\ run' = [Idle EXCEPT !.op = "diagnose", !.pc = "done"]
    /\ hist' = [hist EXCEPT !.pre = Snapshot(vol, reg, pdata)]
    /\ UNCHANGED <<cls, reg, rcall, ej, threads, pdata, env, shell>>

(***************************************************************************)
(* Specifications.                                                         *)
(***************************************************************************)
\* the classifier alone
InitClassify == ClsInit /\ reg = EmptyRegistry /\ rcall = NoCall /\ EjIdle /\ PipeIdle
NextClassify == Classify
SpecClassify == InitClassify /\ [][NextClassify]_vars

\* the registry helpers alone
InitReg ==
    /\ ClsIdle /\ EjIdle /\ PipeIdle
    /\ reg \in [HiveSet -> [Letters -> RegEntries]]
    /\ rcall = NoCall
NextReg == RegSet \/ RegGet \/ RegRemove
SpecReg == InitReg /\ [][NextReg]_vars

\* safe_eject alone
InitEject == ClsIdle /\ reg = EmptyRegistry /\ rcall = NoCall /\ EjInit /\ PipeIdle
NextEject == EjectCall
SpecEject == InitEject /\ [][NextEject]_vars

\* the window: Apply and Remove runs on the drive
Init == ClsIdle /\ reg = EmptyRegistry /\ rcall = NoCall /\ EjIdle /\ PipeInit
Next ==
    \/ StartApply \/ StopShell \/ ClearCache \/ PurgeOldAssets \/ PreClear
    \/ CheckPermissions \/ MakeIconsDir \/ LoadImage \/ CreateWindowsIcons
    \/ CreateLinuxIcons \/ CreateMacosIcons \/ SafeHideAssets \/ RebuildAndStartShell
    \/ NotifyShell \/ Verify \/ Eject \/ Finish \/ RemoveIcon \/ RemoveRefresh
    \/ Diagnose
Spec == Init /\ [][Next]_vars

(***************************************************************************)
(* The pipeline functions of the Linux and macOS variants, as far as their *)
(* callbacks go: the statements of the try block in order, the number of   *)
(* step(...) messages each emits, and how each can end. What the           *)
(* statements do to the volume is left out.                                *)
(***************************************************************************)
PosixFunctions ==
    {"apply_linux_icon", "remove_linux_icon", "apply_macos_icon", "remove_macos_icon"}

Raising == {"PermissionError", "Exception"}

\* a statement outside any inner try: it returns or raises
Plain(msgs) == [msgs |-> msgs, may |-> {"returns"} \cup Raising]
\* a statement wrapped in its own try / except: it returns
Guarded(msgs) == [msgs |-> msgs, may |-> {"returns"}]
\* "if os.path.exists(f): os.remove(f); step(...)": skipped, done, or raising
Conditional(msgs) == [msgs |-> msgs, may |-> {"returns", "skips"} \cup Raising]

\* makedirs, Image.open, pil_to_png_set, create_hidden_png_set, .directory,
\* autorun.inf, .VolumeIcon.icns, "if not portable_only" set_icon_<DE>, the renaming
\* of the PNGs, os.chmod and "Done!"
apply_linux_icon ==
    <<Plain(1), Plain(1), Plain(2), Plain(2), Plain(1), Plain(1), Plain(1),
      Conditional(2), Plain(1), Plain(1)>>

\* .directory, autorun.inf, .VolumeIcon.icns, .icons, "Done!"
remove_linux_icon ==
    <<Conditional(1), Conditional(1), Conditional(1), Conditional(1), Plain(1)>>

\* volume['path'] and "Target", the writable test, Image.open, makedirs,
\* create_macos_iconset, set_volume_icon_macos, create_macos_metadata, autorun.inf,
\* .directory, the hiding loop, the Finder refresh, "Done!"
apply_macos_icon ==
    <<Plain(1), Guarded(1), Plain(1), Plain(1), Plain(2), Plain(2), Plain(1), Plain(1),
      Plain(1), Plain(1), Guarded(1), Plain(1)>>

\* .VolumeIcon.icns, .DS_Store, .fseventsd, .metadata_never_index, autorun.inf,
\* .directory, .icons, the Finder refresh, "Removed n files/folders"
remove_macos_icon ==
    <<Conditional(1), Conditional(1), Conditional(1), Conditional(1), Conditional(1),
      Conditional(1), Conditional(1), Guarded(0), Plain(1)>>

Program(f) ==
    CASE f = "apply_linux_icon" -> apply_linux_icon
      [] f = "remove_linux_icon" -> remove_linux_icon
      [] f = "apply_macos_icon" -> apply_macos_icon
      [] f = "remove_macos_icon" -> remove_macos_icon

\* the except clause that catches exc: the remove functions have "except Exception" only
Handler(f, exc) ==
    IF f \in {"remove_linux_icon", "remove_macos_icon"} THEN "Exception" ELSE exc

PosixPcs == <<"s1", "s2", "s3", "s4", "s5", "s6", "s7", "s8", "s9", "s10", "s11", "s12">>
Position(pc) == CHOOSE i \in 1..Len(PosixPcs) : PosixPcs[i] = pc

\* the worker thread of the Linux or macOS window is started
PosixStart ==
    \E f \in PosixFunctions :
        /\ run.pc \in {"idle", "done"}
        /\ hist.runs < MaxRuns
        /\ run' = [Idle EXCEPT !.op = f, !.pc = "s1"]
        /\ hist' = [hist EXCEPT !.runs = @ + 1]
        /\ UNCHANGED <<cls, reg, rcall, ej, threads, vol, pdata, touched, env, shell>>

\* the next statement of the try block; done_cb(True, ...) follows the last one and
\* done_cb(False, ...) is what an except clause does
PosixStatement ==
    /\ run.op \in PosixFunctions
    /\ run.pc \notin {"idle", "done"}
    /\ LET i == Position(run.pc)
           last == i = Len(Program(run.op))
           st == Program(run.op)[i]
           said == IF last THEN run.pc ELSE PosixPcs[i + 1]
       IN  \E o \in st.may :
            run' = CASE o \in Raising -> Ended(run, FALSE, Handler(run.op, o))
                     [] o = "skips" -> Stepped(<<>>, said)
                     [] OTHER ->
                          IF last
                          THEN Ended(Stepped([k \in 1..st.msgs |-> i], said), TRUE, "success")
                          ELSE Stepped([k \in 1..st.msgs |-> i], said)
    /\ UNCHANGED <<cls, reg, rcall, ej, threads, vol, pdata, touched, env, shell, hist>>

\* one invocation of any pipeline function of the three variants
InitOneRun ==
    /\ ClsIdle /\ reg = EmptyRegistry /\ rcall = NoCall /\ EjIdle
    /\ vol \in InitialVolumes
    /\ pdata = None
    /\ touched = {}
    /\ env \in Environments
    /\ shell = [running |-> TRUE]
    /\ run = Idle
    /\ threads = <<>>
    /\ hist = [runs |-> MaxRuns - 1, pre |-> Snapshot(vol, EmptyRegistry, None), ends |-> <<>>]
NextOneRun == Next \/ PosixStart \/ PosixStatement
SpecOneRun == InitOneRun /\ [][NextOneRun]_vars

(***************************************************************************)
(* The window and its worker threads: which handlers start a thread, under *)
(* what condition, and when a thread ends. A thread is known by its        *)
(* function and, for universal_icon_pipeline, by the number of the step it *)
(* is in; what the threads do to the volume is left out.                   *)
(***************************************************************************)
\* worker threads alive at once in the model
MaxThreads == 2

\* the steps of universal_icon_pipeline, step(n, 14, ...)
LastPipelineStep == 14

\* App._run_pipeline: threading.Thread(target=target_fn, ..., daemon=True).start()
\* without a test, and the StepLog window it opens takes no grab, so the buttons of
\* the main window stay enabled
run_pipeline(ts, target_fn) == Append(ts, [op |-> target_fn, step |-> 1])

\* App._apply with _check_ready() true and the confirmation dialogs answered yes
WindowApply ==
    /\ Len(threads) < MaxThreads
    /\ threads' = run_pipeline(threads, "apply")
    /\ UNCHANGED <<cls, reg, rcall, ej, vol, pdata, touched, env, shell, run, hist>>

\* App._remove_icon with the dialog answered yes: the registry keys and the files of an
\* empty volume (nothing to delete), then the thread running full_refresh_quick
WindowRemoveIcon ==
    /\ Len(threads) < MaxThreads
    /\ reg' = reg_remove_icon(reg, RegDeny(env.admin), DRIVE)
    /\ threads' = Append(threads, [op |-> "remove", step |-> 0])
    /\ UNCHANGED <<cls, rcall, ej, vol, pdata, touched, env, shell, run, hist>>

\* a thread of universal_icon_pipeline reaches its next step
WorkerStep ==
    \E i \in DOMAIN threads :
        /\ threads[i].op = "apply"
        /\ threads[i].step < LastPipelineStep
        /\ threads' = [threads EXCEPT ![i].step = @ + 1]
        /\ UNCHANGED <<cls, reg, rcall, ej, vol, pdata, touched, env, shell, run, hist>>

\* a thread ends: done_cb after the last step or from an except clause of any step,
\* or the return of full_refresh_quick
WorkerEnd ==
    \E i \in DOMAIN threads :
        /\ threads' = SubSeq(threads, 1, i - 1) \o SubSeq(threads, i + 1, Len(threads))
        /\ UNCHANGED <<cls, reg, rcall, ej, vol, pdata, touched, env, shell, run, hist>>

InitWindow == ClsIdle /\ reg = EmptyRegistry /\ rcall = NoCall /\ EjIdle /\ PipeIdle
NextWindow == WindowApply \/ WindowRemoveIcon \/ WorkerStep \/ WorkerEnd
SpecWindow == InitWindow /\ [][NextWindow]_vars

\* a name of the deny list, whatever its case
IsDenyName(name) == \E i \in 1..Len(SYSTEM_FILES) : Lower(name) = Lower(SYSTEM_FILES[i])

\* a name of the allow list or the dot-prefixed form of one, whatever its case
IsAllowName(name) ==
    \E i \in 1..Len(ICON_FILES) :
        \/ Lower(name) = Lower(ICON_FILES[i])
        \/ Lower(name) = "." \o LStripDot(Lower(ICON_FILES[i]))

LeafOf(comps) == comps[Len(comps)]

\* C2: a path whose file name or any ancestor component is a deny-listed name is
\* classified unsafe, also when the file name itself is an allow-listed name.
C2_DenyListedNeverSafe ==
    (cls.called /\ \E i \in 1..Len(cls.comps) : IsDenyName(cls.comps[i])) => ~cls.safe

\* an allow-listed file below a deny-listed ancestor has been classified
C2_Witness ==
    /\ cls.called
    /\ Len(cls.comps) > 1
    /\ IsDenyName(cls.comps[1])
    /\ IsAllowName(LeafOf(cls.comps))
    /\ ~cls.isdir
    /\ ~cls.safe

\* C3: a path that matches no deny-list entry is classified safe exactly when its file
\* name is an allow-listed name (or the dot-prefixed form of one), file or directory.
C3_SafeIffAllowListed ==
    LET filepath == PathOf(DRIVE, cls.comps)
    IN  (cls.called /\ ~DenyListed(Lower(basename(filepath)), Lower(filepath)))
            => (cls.safe <=> IsAllowName(LeafOf(cls.comps)))

\* C5: a failed write to the current user's hive is raised by reg_set_icon, and a
\* failure of the machine-wide write alone is not raised and leaves the current user's
\* entry written.
C5_UserWriteFatalMachineWriteNot ==
    rcall.op = "set" =>
        /\ (<<HKCU, "write">> \in rcall.deny => rcall.raised)
        /\ (rcall.deny = {<<HKLM, "write">>} =>
                ~rcall.raised /\ reg[HKCU][Letter(rcall.drive)].icon = rcall.path)

\* C7: when reg_set_icon(v, p) returns without raising, reg_get_icon(v) on the keys it
\* leaves returns p.
C7_SetThenGet ==
    (rcall.op = "set" /\ ~rcall.raised) => reg_get_icon(reg, rcall.drive) = rcall.path

\* reg_set_icon returned although the current user's write failed, over an older entry
\* of the current user
C7_Witness ==
    /\ rcall.op = "set"
    /\ ~rcall.raised
    /\ <<HKCU, "write">> \in rcall.deny
    /\ reg[HKCU][Letter(rcall.drive)].icon \notin {None, rcall.path}
    /\ reg_get_icon(reg, rcall.drive) = rcall.path

\* C8: after reg_remove_icon(v) has returned, reg_get_icon(v) returns None.
C8_RemoveThenGetNone ==
    rcall.op = "remove" => reg_get_icon(reg, rcall.drive) = None

\* C10: in every copy of safe_eject, when the volume handle cannot be opened or the
\* eject control call fails, the PowerShell eject has been attempted by the time
\* safe_eject returns.
C10_ScriptedEjectAfterNativeFailure ==
    (ej.called /\ (~ej.e.handle \/ ~ej.e.ioctl)) =>
        \E i \in 1..Len(ej.out.calls) : ej.out.calls[i] = "powershell"

\* C1: every entry of the volume that the run in progress has written over, deleted,
\* renamed or hidden is one that is_safe_to_hide accepts.
C1_MutatedEntriesAreSafe ==
    run.op \in {"apply", "remove"} =>
        \A t \in touched :
            t[1] \in {"overwrite", "delete", "rename", "hide"} => is_safe_to_hide(t[2], t[3])

\* C4: an Apply whose image cannot be opened ends with ok = false and leaves the
\* volume's files, the registry keys and the stored icon as they were when it started.
C4_UnreadableImageChangesNothing ==
    (run.op = "apply" /\ run.pc = "done" /\ run.args.img = "unreadable") =>
        ~run.result.ok /\ Snapshot(vol, reg, pdata) = hist.pre

\* C6: an Apply whose registry write was refused for lack of privilege ends with
\* ok = false and the permission-denied message, never with ok = true.
C6_RegistryDenialIsFatal ==
    (run.op = "apply" /\ run.pc = "done" /\ run.registry = "PermissionError") =>
        ~run.result.ok /\ run.result.kind = "PermissionError"

\* C9: two successive Apply runs with the same image, label and options leave the
\* registry keys, the stored icon and the files of the volume (names and contents)
\* that the first of them left.
C9_ApplyTwiceSameAsOnce ==
    (/\ Len(hist.ends) = 2
     /\ hist.ends[1].op = "apply" /\ hist.ends[2].op = "apply"
     /\ hist.ends[1].args = hist.ends[2].args
     /\ hist.ends[1].ok /\ hist.ends[2].ok)
        => hist.ends[2].snap = hist.ends[1].snap

\* C11: safe_eject of Windows/Python/DriveIconSetter.py returns ok = false only when
\* every method it tried has failed, and then with a non-empty detail.
C11_FailureOnlyWhenAllFailedWithDetail ==
    (ej.called /\ ej.copy = COPY_CROSS /\ ~ej.out.raised /\ ~ej.out.ok) =>
        /\ (~ej.e.handle \/ ~ej.e.ioctl)
        /\ ej.e.ps # "ok"
        /\ ej.out.detail # ""

\* C13: safe_eject issues the dismount and eject control calls only once the volume
\* lock has been acquired: when FSCTL_LOCK_VOLUME fails, neither is issued.
C13_NoDismountWithoutLock ==
    (ej.called /\ ej.e.handle /\ ~ej.e.lock) =>
        \A i \in 1..Len(ej.out.calls) : ej.out.calls[i] \notin {"FSCTL_DISMOUNT", "IOCTL_EJECT"}

\* C12: an Apply asked to eject a drive that is the system drive or is not removable
\* never calls safe_eject.
C12_NoEjectOfSystemOrFixedDrive ==
    (/\ run.op = "apply"
     /\ run.args.eject
     /\ (is_system_drive(DRIVE, env.systemDrive) \/ env.dtype # DRIVE_REMOVABLE))
        => run.eject.calls = <<>>

\* C14: an Apply that has reached the end of its fourteen steps ends with ok = true,
\* however the eject step ends.
C14_EjectNeverChangesResult ==
    (/\ run.op = "apply" /\ run.pc = "done"
     /\ \E i \in 1..Len(run.steps) : run.steps[i] = 14)
        => run.result.ok

\* C15: no Apply run ends in a shell step (1 stop, 2 and 4 cache, 12 rebuild and start,
\* 13 notify): the last progress message of an ended run is not one of those steps.
C15_NoRunEndsInShellStep ==
    (run.op = "apply" /\ run.pc = "done" /\ run.steps # <<>>)
        => run.steps[Len(run.steps)] \notin {1, 2, 4, 12, 13}

\* C20: no Apply run is ever blocked in an external command that has no timeout.
C20_NoRunBlockedForever ==
    run.pc # "hung"

\* C16: no Apply run ends with ok = false in one of the steps that write the marker and
\* asset files (8 Windows, 9 Linux, 10 macOS).
C16_MarkerWriteFailureNotFatal ==
    (run.op = "apply" /\ run.pc = "done" /\ run.steps # <<>>
     /\ run.steps[Len(run.steps)] \in {8, 9, 10})
        => run.result.ok

\* C17: after step 3 of an Apply every file the step deleted is one is_safe_to_hide
\* accepts and every file of the volume it does not accept is still there, and no run
\* ends in step 3 (a deletion that is denied is skipped).
C17_PurgeDeletesOnlySafeFiles ==
    /\ (run.op = "apply" /\ run.pc = "s4") =>
          /\ \A t \in touched : t[1] = "delete" => is_safe_to_hide(t[2], t[3])
          /\ \A q \in DOMAIN hist.pre.files :
                ~is_safe_to_hide(q, hist.pre.files[q].dir) => q \in DOMAIN vol
    /\ (run.op = "apply" /\ run.pc = "done" /\ run.steps # <<>>) =>
          run.steps[Len(run.steps)] # 3

\* C17 witness: step 3 has run on a volume holding an old icon file another process has
\* open, which it skipped, and a user's file matching drive_icon*.ico, which it kept.
C17_Witness ==
    /\ run.op = "apply" /\ run.pc = "s4"
    /\ <<"denied", "E:\\.VolumeIcon.icns", FALSE>> \in touched
    /\ "E:\\.VolumeIcon.icns" \in DOMAIN vol
    /\ "E:\\drive_icon_backup.ico" \in DOMAIN vol

LastStep == IF run.steps = <<>> THEN 0 ELSE run.steps[Len(run.steps)]

\* C18 (as amended): within one Apply run the first progress message carries step 1 and
\* each later message carries the number of the message before it or the next number,
\* the registry is written in step 8, files are hidden in step 11 only, the shell is
\* started again in step 12, and safe_eject is called only after the messages of step 14.
C18_StepNumbersNeverDecrease ==
    run.op = "apply" =>
        /\ run.steps # <<>> => run.steps[1] = 1
        /\ \A i \in 1..(Len(run.steps) - 1) :
              run.steps[i + 1] \in {run.steps[i], run.steps[i] + 1}
        /\ run.registry # "" => LastStep >= 8
        /\ (\E t \in touched : t[1] = "hide") => LastStep >= 11
        /\ run.eject.calls # <<>> => LastStep = 14

\* C18 witness: an Apply run has gone through all fourteen steps and the eject.
C18_Witness ==
    /\ run.op = "apply" /\ run.pc = "done" /\ run.result.ok
    /\ run.eject.calls # <<>>
    /\ run.steps = <<1, 2, 2, 3, 3, 4, 5, 5, 6, 7, 8, 8, 9, 9, 10, 10, 11, 11, 12, 13, 14, 14>>

\* C18 (as stated): each progress message of an Apply run carries a step number
\* strictly greater than that of the message before it.
C18_StepNumbersStrictlyIncrease ==
    run.op = "apply" =>
        \A i \in 1..(Len(run.steps) - 1) : run.steps[i + 1] > run.steps[i]

PipelineFunctions == {"apply"} \cup PosixFunctions

ApplySucceeded == run.op = "apply" /\ run.pc = "done" /\ run.result.ok

\* C25: after a successful Apply the root of the volume holds desktop.ini and
\* autorun.inf (Windows), .directory (Linux) and .VolumeIcon.icns (macOS) under these
\* names.
C25_DescriptorsUnderShellNames ==
    ApplySucceeded =>
        \A name \in {"desktop.ini", "autorun.inf", ".directory", ".VolumeIcon.icns"} :
            Exists(vol, join(DRIVE, name))

\* C26: an Apply invoked with hide_files = False gives no file the hidden and system
\* attributes and renames none to a dot-prefixed name.
C26_NothingHiddenWithoutOption ==
    (run.op = "apply" /\ ~run.args.hide) =>
        \A t \in touched :
            /\ t[1] # "hide"
            /\ t[1] = "rename" => EndsWith(t[2], ".tmp")

\* start_explorer has been called and has returned: message 13 follows it
ShellStarted == \E i \in DOMAIN run.steps : run.steps[i] = 13

\* C21: the change notifications of step 13 are sent only when the polling of
\* start_explorer has seen the shell running.
C21_NotifyOnlyAfterShellSeen ==
    (run.op = "apply" /\ ShellStarted) => shell.running

\* C27: when a first Apply run delivers its result, on success or on failure, with the
\* shell stopped, start_explorer has been called since kill_explorer stopped it.
C27_ShellStartedBeforeResult ==
    (run.op = "apply" /\ run.pc = "done" /\ hist.runs = 1 /\ ~shell.running)
        => ShellStarted

\* the names Apply creates on the root of the volume, in both forms
MarkerNames ==
    {"desktop.ini", ".desktop.ini", "autorun.inf", ".autorun.inf", ".directory",
     ".VolumeIcon.icns", ".DS_Store", ".metadata_never_index", ".fseventsd", ".icons"}

\* C23: after a successful Apply followed by a Remove, neither hive holds an entry for
\* the drive and none of the markers and asset directories is left on the volume.
C23_RemoveUndoesApply ==
    (/\ Len(hist.ends) = 2
     /\ hist.ends[1].op = "apply" /\ hist.ends[1].ok
     /\ hist.ends[2].op = "remove")
        => /\ \A h \in HiveSet : hist.ends[2].snap.reg[h][Letter(DRIVE)] = NoEntry
           /\ \A name \in MarkerNames :
                join(DRIVE, name) \notin DOMAIN hist.ends[2].snap.files

\* C29: after two successful Apply runs of the same image, the second with label B, no
\* hive holds a label other than B stripped (none when B is blank) and every autorun
\* descriptor on the volume has the contents written for B.
C29_LastLabelWins ==
    (/\ Len(hist.ends) = 2
     /\ hist.ends[1].op = "apply" /\ hist.ends[2].op = "apply"
     /\ hist.ends[1].ok /\ hist.ends[2].ok)
        => LET B == hist.ends[2].args.label
               snap == hist.ends[2].snap
           IN  /\ \A h \in HiveSet :
                    snap.reg[h][Letter(DRIVE)].label
                        \in {None, IF Strip(B) = "" THEN None ELSE Strip(B)}
               /\ \A name \in {"autorun.inf", ".autorun.inf"} :
                    join(DRIVE, name) \in DOMAIN snap.files =>
                        snap.files[join(DRIVE, name)].data = autorun_content(B)

\* C30: step 11 of an Apply sets attributes on, renames and deletes only paths that
\* is_safe_to_hide accepts, and leaves every system entry and every file and folder of
\* the user as it was.
C30_HidingLeavesUserDataAlone ==
    (run.op = "apply" /\ run.pc = "s11") =>
        LET out == safe_hide_all_icon_files([FS EXCEPT !.touched = {}], DRIVE)
        IN  /\ \A t \in out.touched : is_safe_to_hide(t[2], t[3])
            /\ \A q \in DOMAIN UserVolume \cap DOMAIN vol :
                  q \in DOMAIN out.vol /\ out.vol[q] = vol[q]

\* C28: after a successful Apply the files the descriptors name exist on the volume:
\* .icons/.drive_icon.png for .directory, .icons\drive_icon.ico for desktop.ini and
\* autorun.inf in either of their forms.
C28_DescriptorsNameExistingFiles ==
    ApplySucceeded =>
        /\ Exists(vol, join(DRIVE, ".directory")) =>
              Exists(vol, join(icons_dir(DRIVE), ".drive_icon.png"))
        /\ (\E name \in {"desktop.ini", ".desktop.ini", "autorun.inf", ".autorun.inf"} :
                Exists(vol, join(DRIVE, name))) =>
              Exists(vol, join(icons_dir(DRIVE), "drive_icon.ico"))

\* C22: Diagnose creates, changes and deletes nothing: while and after it runs the
\* volume, the registry and the ProgramData copy are what they were before it.
C22_DiagnoseReadsOnly ==
    run.op = "diagnose" => (touched = {} /\ Snapshot(vol, reg, pdata) = hist.pre)

\* C24: at no time are two runs started from the window in flight on the volume.
C24_OneRunInFlight == Len(threads) <= 1

=============================================================================
